---- MODULE Spec2Model ----
(***************************************************************************)
(* Model of the state-machine-union-return ESLint rule of                  *)
(* src/src/eslint-plugin-state-machine/index.ts (specification Spec) and   *)
(* of the StateMachine class of src/src/state-machine.ts (specification    *)
(* MachineSpec).                                                           *)
(*                                                                         *)
(* The rule is a pure function from one `new ...(...)` node of the syntax  *)
(* tree to a list of diagnostics.  Syntax-tree nodes are records carrying  *)
(* the ESTree fields the rule reads (type, key, value, body, ...).  A      *)
(* JavaScript array that can be handed to `visit` is the record            *)
(* [array |-> <<...>>], so that `'type' in node` and Array.isArray keep    *)
(* their meaning; arrays the rule only iterates are plain sequences.  The  *)
(* JavaScript value null is the record NULL.                               *)
(***************************************************************************)
EXTENDS Integers, Sequences, FiniteSets

VARIABLES
    node,         \* the NewExpression node handed to the rule
    pc,           \* "pending" before the handler has run, "done" after
    transitions,  \* the Map built by parseStateMachineConfig for this node
    scans,        \* one record per call of analyzeCommandFactory, in order
    reports,      \* the context.report calls made so far, in order
    thisProps,    \* StateMachine: this.props (config, commands, initialState)
    model,        \* StateMachine: the counter object handed over as props.model
    history,      \* StateMachine: this.history
    future,       \* StateMachine: this.future
    log           \* the last two calls of execute, latest first: the message, the
                  \* machine as it was before the call, the command functions
                  \* the call ran and whether it threw

ruleVars == <<node, pc, transitions, scans, reports>>

machineVars == <<thisProps, model, history, future, log>>

vars == <<node, pc, transitions, scans, reports, thisProps, model,
         history, future, log>>

(***************************************************************************)
(* Syntax-tree nodes                                                       *)
(***************************************************************************)
NULL == [null |-> TRUE]

Arr(items) == [array |-> items]

IsArray(x) == "array" \in DOMAIN x

Identifier(name) == [type |-> "Identifier", name |-> name]

StringLiteral(s) == [type |-> "Literal", typeof |-> "string", value |-> s]

NumberLiteral == [type |-> "Literal", typeof |-> "number", value |-> "1"]

Property(key, value) == [type |-> "Property", key |-> key, value |-> value]

SpreadElement(arg) == [type |-> "SpreadElement", argument |-> arg]

ObjectExpression(props) == [type |-> "ObjectExpression", properties |-> props]

ArrayExpression(elems) == [type |-> "ArrayExpression", elements |-> elems]

MemberExpression(object, property) ==
    [type |-> "MemberExpression", object |-> object, property |-> property]

NewExpressionNode(callee, args) ==
    [type |-> "NewExpression", callee |-> callee, arguments |-> args]

CallExpression(callee, args) ==
    [type |-> "CallExpression", callee |-> callee, arguments |-> args]

ConditionalExpression(test, consequent, alternate) ==
    [type |-> "ConditionalExpression", test |-> test,
     consequent |-> consequent, alternate |-> alternate]

ArrowFunctionExpression(body) == [type |-> "ArrowFunctionExpression", body |-> body]

FunctionExpression(body) == [type |-> "FunctionExpression", body |-> body]

FunctionDeclaration(name, body) ==
    [type |-> "FunctionDeclaration", id |-> Identifier(name), body |-> body]

BlockStatement(stmts) == [type |-> "BlockStatement", body |-> Arr(stmts)]

ReturnStatement(arg) == [type |-> "ReturnStatement", argument |-> arg]

IfStatement(test, consequent, alternate) ==
    [type |-> "IfStatement", test |-> test,
     consequent |-> consequent, alternate |-> alternate]

SwitchCase(test, stmts) ==
    [type |-> "SwitchCase", test |-> test, consequent |-> Arr(stmts)]

SwitchStatement(discriminant, cases) ==
    [type |-> "SwitchStatement", discriminant |-> discriminant, cases |-> cases]

CatchClause(body) == [type |-> "CatchClause", param |-> NULL, body |-> body]

TryStatement(block, handler, finalizer) ==
    [type |-> "TryStatement", block |-> block,
     handler |-> handler, finalizer |-> finalizer]

WhileStatement(test, body) == [type |-> "WhileStatement", test |-> test, body |-> body]

VariableDeclaration(name, init) ==
    [type |-> "VariableDeclaration",
     declarations |-> <<[type |-> "VariableDeclarator",
                         id |-> Identifier(name), init |-> init]>>]

ExpressionStatement(e) == [type |-> "ExpressionStatement", expression |-> e]

(***************************************************************************)
(* JavaScript helpers: String(n), Array.prototype.join, Map, Set           *)
(***************************************************************************)
Digits == <<"0", "1", "2", "3", "4", "5", "6", "7", "8", "9">>

RECURSIVE toString(_)
toString(n) ==
    IF n < 10 THEN Digits[n + 1]
    ELSE toString(n \div 10) \o Digits[(n % 10) + 1]

RECURSIVE Join(_, _)
Join(seq, sep) ==
    IF seq = <<>> THEN ""
    ELSE IF Len(seq) = 1 THEN seq[1]
    ELSE seq[1] \o sep \o Join(Tail(seq), sep)

EmptyMap == [k \in {} |-> NULL]

MapHas(m, k) == k \in DOMAIN m

MapSet(m, k, v) == [x \in DOMAIN m \cup {k} |-> IF x = k THEN v ELSE m[x]]

\* Set.prototype.add on a Set kept as the sequence of its members in
\* insertion order (the order Array.from yields).
SetAdd(set, v) == IF \E i \in 1..Len(set) : set[i] = v THEN set ELSE Append(set, v)

RECURSIVE SetAddAll(_, _)
SetAddAll(set, vs) ==
    IF vs = <<>> THEN set ELSE SetAddAll(SetAdd(set, Head(vs)), Tail(vs))

(***************************************************************************)
(* extractStateIdFromExpression: <<>> for null/undefined, <<s>> for s      *)
(***************************************************************************)
RECURSIVE extractStateIdFromProps(_, _)
extractStateIdFromProps(props, i) ==
    IF i > Len(props) THEN <<>>
    ELSE LET prop == props[i] IN
         IF /\ prop.type = "Property"
            /\ prop.key.type = "Identifier"
            /\ prop.key.name = "id"
            /\ prop.value.type = "Literal"
            /\ prop.value.typeof = "string"
         THEN <<prop.value.value>>
         ELSE extractStateIdFromProps(props, i + 1)

\* extractStateIdFromExpression resolving a call to its first argument.
extractStateIdFromExpression_throughCall(expression) ==
    IF expression.type = "CallExpression" /\ expression.arguments # <<>>
    THEN IF expression.arguments[1].type # "ObjectExpression" THEN <<>>
         ELSE extractStateIdFromProps(expression.arguments[1].properties, 1)
    ELSE IF expression.type # "ObjectExpression" THEN <<>>
    ELSE extractStateIdFromProps(expression.properties, 1)

extractStateIdFromExpression(expression) ==
    IF expression.type # "ObjectExpression" THEN <<>>
    ELSE extractStateIdFromProps(expression.properties, 1)

\* `if (stateId)`: null, undefined and the empty string are falsy.
Truthy(stateId) == stateId # <<>> /\ stateId[1] # ""

(***************************************************************************)
(* findReturnedStateIds                                                    *)
(***************************************************************************)
RECURSIVE visit(_)
RECURSIVE visitEach(_)

\* Array.prototype.forEach(visit): the ids added, in order.
visitEach(nodes) ==
    IF nodes = <<>> THEN <<>> ELSE visit(Head(nodes)) \o visitEach(Tail(nodes))

\* The ids `visit(n)` adds to stateIds, in the order it adds them.  The
\* syntax tree is a tree, every node has one parent, so the `visited` guard
\* never turns a node away.
\* visit without `if ('alternate' in node ...) visit(node.alternate)`.
visit_noAlternate(n) ==
    IF n = NULL THEN <<>>
    ELSE
    LET explicit ==
            IF "type" \in DOMAIN n /\ n.type = "ReturnStatement" /\ n.argument # NULL
            THEN LET stateId == extractStateIdFromExpression(n.argument)
                 IN  IF Truthy(stateId) THEN stateId ELSE <<>>
            ELSE <<>>
        implicit ==
            IF /\ "type" \in DOMAIN n
               /\ n.type = "ArrowFunctionExpression"
               /\ n.body.type # "BlockStatement"
            THEN LET stateId == extractStateIdFromExpression(n.body)
                 IN  IF Truthy(stateId) THEN stateId ELSE <<>>
            ELSE <<>>
        body ==
            IF "body" \in DOMAIN n /\ n.body # NULL
            THEN IF IsArray(n.body) THEN visitEach(n.body.array) ELSE visit(n.body)
            ELSE <<>>
        consequent ==
            IF "consequent" \in DOMAIN n /\ n.consequent # NULL
            THEN visit(n.consequent) ELSE <<>>
        argument ==
            IF "argument" \in DOMAIN n /\ n.argument # NULL
            THEN visit(n.argument) ELSE <<>>
        cases ==
            IF "cases" \in DOMAIN n THEN visitEach(n.cases) ELSE <<>>
    IN  implicit \o explicit \o body \o consequent \o argument \o cases

visit(n) ==
    IF n = NULL THEN <<>>
    ELSE
    LET implicit ==
            IF /\ "type" \in DOMAIN n
               /\ n.type = "ArrowFunctionExpression"
               /\ n.body.type # "BlockStatement"
            THEN LET stateId == extractStateIdFromExpression(n.body)
                 IN  IF Truthy(stateId) THEN stateId ELSE <<>>
            ELSE <<>>
        explicit ==
            IF /\ "type" \in DOMAIN n
               /\ n.type = "ReturnStatement"
               /\ n.argument # NULL
            THEN LET stateId == extractStateIdFromExpression(n.argument)
                 IN  IF Truthy(stateId) THEN stateId ELSE <<>>
            ELSE <<>>
        body ==
            IF "body" \in DOMAIN n /\ n.body # NULL
            THEN IF IsArray(n.body) THEN visitEach(n.body.array) ELSE visit(n.body)
            ELSE <<>>
        consequent ==
            IF "consequent" \in DOMAIN n /\ n.consequent # NULL
            THEN visit(n.consequent) ELSE <<>>
        alternate ==
            IF "alternate" \in DOMAIN n /\ n.alternate # NULL
            THEN visit(n.alternate) ELSE <<>>
        argument ==
            IF "argument" \in DOMAIN n /\ n.argument # NULL
            THEN visit(n.argument) ELSE <<>>
        cases ==
            IF "cases" \in DOMAIN n
            THEN visitEach(n.cases) ELSE <<>>
    IN  implicit \o explicit \o body \o consequent \o alternate \o argument \o cases

findReturnedStateIds(funcNode) == SetAddAll(<<>>, visit(funcNode))

(***************************************************************************)
(* findExecuteMethod / getExecuteFromObject                                *)
(***************************************************************************)
RECURSIVE getExecuteFromProps(_, _)
getExecuteFromProps(props, i) ==
    IF i > Len(props) THEN NULL
    ELSE LET prop == props[i] IN
         IF /\ prop.type = "Property"
            /\ prop.key.type = "Identifier"
            /\ prop.key.name = "execute"
            /\ prop.value.type \in {"FunctionExpression", "ArrowFunctionExpression"}
         THEN prop.value
         ELSE getExecuteFromProps(props, i + 1)

getExecuteFromObject(objNode) == getExecuteFromProps(objNode.properties, 1)

\* The loop over the statements of a factory's block body: the first
\* top-level `return {...}` decides, whether or not it holds an execute.
RECURSIVE findExecuteInStatements(_, _)
findExecuteInStatements(stmts, i) ==
    IF i > Len(stmts) THEN NULL
    ELSE LET stmt == stmts[i] IN
         IF /\ stmt.type = "ReturnStatement"
            /\ stmt.argument # NULL
            /\ stmt.argument.type = "ObjectExpression"
         THEN getExecuteFromObject(stmt.argument)
         ELSE findExecuteInStatements(stmts, i + 1)

findExecuteMethod(n) ==
    IF n.type = "ArrowFunctionExpression" /\ n.body.type = "ObjectExpression"
    THEN getExecuteFromObject(n.body)
    ELSE IF n.type \in {"ArrowFunctionExpression", "FunctionExpression"}
            /\ n.body.type = "BlockStatement"
    THEN findExecuteInStatements(n.body.body.array, 1)
    ELSE NULL

(***************************************************************************)
(* parseStateMachineConfig                                                 *)
(***************************************************************************)
\* pushTarget without the `typeof elem.value === 'string'` test.
pushTarget_anyLiteral(targetStates, elem) ==
    IF elem # NULL /\ elem.type = "Literal"
    THEN Append(targetStates, elem.value)
    ELSE targetStates

\* One turn of the loop over msgProp.value.elements (a hole is NULL).
pushTarget(targetStates, elem) ==
    IF elem # NULL /\ elem.type = "Literal" /\ elem.typeof = "string"
    THEN Append(targetStates, elem.value)
    ELSE targetStates

RECURSIVE collectTargetStates(_, _, _)
collectTargetStates(elements, i, targetStates) ==
    IF i > Len(elements) THEN targetStates
    ELSE collectTargetStates(elements, i + 1, pushTarget(targetStates, elements[i]))

\* One turn of the loop over onProp.value.properties.
parseMessage(messageMap, msgProp) ==
    IF msgProp.type # "Property" \/ msgProp.key.type # "Identifier"
    THEN messageMap
    ELSE LET messageName == msgProp.key.name
             targetStates ==
                 IF msgProp.value.type = "ArrayExpression"
                 THEN collectTargetStates(msgProp.value.elements, 1, <<>>)
                 ELSE <<>>
         IN  IF Len(targetStates) > 0
             THEN MapSet(messageMap, messageName, targetStates)
             ELSE messageMap

RECURSIVE parseMessages(_, _, _)
parseMessages(props, i, messageMap) ==
    IF i > Len(props) THEN messageMap
    ELSE parseMessages(props, i + 1, parseMessage(messageMap, props[i]))

\* stateConfig.properties.find(p => ... p.key.name === 'on'), NULL for undefined.
RECURSIVE findOnProp(_, _)
findOnProp(props, i) ==
    IF i > Len(props) THEN NULL
    ELSE LET p == props[i] IN
         IF p.type = "Property" /\ p.key.type = "Identifier" /\ p.key.name = "on"
         THEN p
         ELSE findOnProp(props, i + 1)

\* One turn of the loop over configNode.properties.
parseState(trans, stateProp) ==
    IF stateProp.type # "Property" \/ stateProp.key.type # "Identifier"
    THEN trans
    ELSE IF stateProp.value.type # "ObjectExpression"
    THEN trans
    ELSE LET onProp == findOnProp(stateProp.value.properties, 1) IN
         IF onProp = NULL \/ onProp.value.type # "ObjectExpression"
         THEN trans
         ELSE MapSet(trans, stateProp.key.name,
                     parseMessages(onProp.value.properties, 1, EmptyMap))

RECURSIVE parseStates(_, _, _)
parseStates(props, i, trans) ==
    IF i > Len(props) THEN trans
    ELSE parseStates(props, i + 1, parseState(trans, props[i]))

parseStateMachineConfig(configNode) == parseStates(configNode.properties, 1, EmptyMap)

(***************************************************************************)
(* analyzeCommandFactory, called for the command at property j of the      *)
(* state at property i of the commands literal                             *)
(***************************************************************************)
\* Report counting the distinct declared targets.
Report_distinctCount(executeFunc, messageId, messageName, targetStates, actualState, at) ==
    [node      |-> executeFunc,
     at        |-> at,
     messageId |-> messageId,
     data      |-> [message     |-> messageName,
                    count       |-> toString(Cardinality({targetStates[k] :
                                                            k \in DOMAIN targetStates})),
                    states      |-> Join(targetStates, ", "),
                    actualState |-> actualState]]

Report(executeFunc, messageId, messageName, targetStates, actualState, at) ==
    [node      |-> executeFunc,
     at        |-> at,    \* stands for the identity (source range) of `node`
     messageId |-> messageId,
     data      |-> [message     |-> messageName,
                    count       |-> toString(Len(targetStates)),
                    states      |-> Join(targetStates, ", "),
                    actualState |-> actualState]]

\* classifyReturned reporting only the first observed id in missingUnionReturn.
classifyReturned_firstOnly(executeFunc, returnedStateIds, messageName, targetStates, at) ==
    IF Len(returnedStateIds) = 1
    THEN <<Report(executeFunc, "alwaysSameState", messageName, targetStates,
                  returnedStateIds[1], at)>>
    ELSE IF Len(returnedStateIds) > 0 /\ Len(returnedStateIds) < Len(targetStates)
    THEN <<Report(executeFunc, "missingUnionReturn", messageName, targetStates,
                  returnedStateIds[1], at)>>
    ELSE <<>>

\* classifyReturned with `size <= targetStates.length` for `<`.
classifyReturned_inclusive(executeFunc, returnedStateIds, messageName, targetStates, at) ==
    IF Len(returnedStateIds) = 1
    THEN <<Report(executeFunc, "alwaysSameState", messageName, targetStates,
                  returnedStateIds[1], at)>>
    ELSE IF Len(returnedStateIds) > 0 /\ Len(returnedStateIds) <= Len(targetStates)
    THEN <<Report(executeFunc, "missingUnionReturn", messageName, targetStates,
                  Join(returnedStateIds, ", "), at)>>
    ELSE <<>>

\* classifyReturned without the `returnedStateIds.size > 0` test.
classifyReturned_noEmptyTest(executeFunc, returnedStateIds, messageName, targetStates, at) ==
    IF Len(returnedStateIds) = 1
    THEN <<Report(executeFunc, "alwaysSameState", messageName, targetStates,
                  returnedStateIds[1], at)>>
    ELSE IF Len(returnedStateIds) < Len(targetStates)
    THEN <<Report(executeFunc, "missingUnionReturn", messageName, targetStates,
                  Join(returnedStateIds, ", "), at)>>
    ELSE <<>>

\* The if / else-if on returnedStateIds.size: the reports made.
classifyReturned(executeFunc, returnedStateIds, messageName, targetStates, at) ==
    IF Len(returnedStateIds) = 1
    THEN <<Report(executeFunc, "alwaysSameState", messageName, targetStates,
                  returnedStateIds[1], at)>>
    ELSE IF Len(returnedStateIds) > 0 /\ Len(returnedStateIds) < Len(targetStates)
    THEN <<Report(executeFunc, "missingUnionReturn", messageName, targetStates,
                  Join(returnedStateIds, ", "), at)>>
    ELSE <<>>

\* The locals of one call and the reports it makes.
analyzeCommandFactory(factoryNode, messageName, targetStates, at) ==
    LET executeFunc == findExecuteMethod(factoryNode) IN
    IF executeFunc = NULL
    THEN [executeFunc |-> NULL, returnedStateIds |-> <<>>, reports |-> <<>>]
    ELSE LET returnedStateIds == findReturnedStateIds(executeFunc) IN
         [executeFunc      |-> executeFunc,
          returnedStateIds |-> returnedStateIds,
          reports          |-> classifyReturned(executeFunc, returnedStateIds,
                                                messageName, targetStates, at)]

(***************************************************************************)
(* checkCommands: [scans, reports] accumulated over the two loops          *)
(***************************************************************************)
\* checkMessage with `targetStates.length < 1` for `<= 1`.
checkMessage_offByOne(acc, msgProp, messageMap, i, j) ==
    IF msgProp.type # "Property" \/ msgProp.key.type # "Identifier"
    THEN acc
    ELSE LET messageName == msgProp.key.name IN
         IF \/ ~MapHas(messageMap, messageName)
            \/ Len(messageMap[messageName]) < 1
         THEN acc
         ELSE LET call == analyzeCommandFactory(msgProp.value, messageName,
                                                messageMap[messageName], <<i, j>>)
              IN  [scans   |-> Append(acc.scans,
                                      [at               |-> <<i, j>>,
                                       executeFunc      |-> call.executeFunc,
                                       returnedStateIds |-> call.returnedStateIds]),
                   reports |-> acc.reports \o call.reports]

\* One turn of the loop over stateValue.properties, for the message at
\* property j of the state at property i.
checkMessage(acc, msgProp, messageMap, i, j) ==
    IF msgProp.type # "Property" \/ msgProp.key.type # "Identifier"
    THEN acc
    ELSE LET messageName == msgProp.key.name IN
         IF \/ ~MapHas(messageMap, messageName)
            \/ Len(messageMap[messageName]) <= 1
         THEN acc
         ELSE LET call == analyzeCommandFactory(msgProp.value, messageName,
                                                messageMap[messageName], <<i, j>>)
              IN  [scans   |-> Append(acc.scans,
                                      [at               |-> <<i, j>>,
                                       executeFunc      |-> call.executeFunc,
                                       returnedStateIds |-> call.returnedStateIds]),
                   reports |-> acc.reports \o call.reports]

RECURSIVE checkMessages(_, _, _, _, _)
checkMessages(props, messageMap, i, j, acc) ==
    IF j > Len(props) THEN acc
    ELSE checkMessages(props, messageMap, i, j + 1,
                       checkMessage(acc, props[j], messageMap, i, j))

\* One turn of the loop over commandsNode.properties.
checkState(acc, stateProp, trans, i) ==
    IF stateProp.type # "Property" \/ stateProp.key.type # "Identifier"
    THEN acc
    ELSE IF stateProp.value.type # "ObjectExpression"
    THEN acc
    ELSE IF ~MapHas(trans, stateProp.key.name)
    THEN acc
    ELSE checkMessages(stateProp.value.properties, trans[stateProp.key.name], i, 1, acc)

RECURSIVE checkStates(_, _, _, _)
checkStates(props, trans, i, acc) ==
    IF i > Len(props) THEN acc
    ELSE checkStates(props, trans, i + 1, checkState(acc, props[i], trans, i))

checkCommands(commandsNode, trans) ==
    checkStates(commandsNode.properties, trans, 1, [scans |-> <<>>, reports |-> <<>>])

(***************************************************************************)
(* The NewExpression handler of the rule                                   *)
(***************************************************************************)
\* isStateMachine without the name test on a member expression's property.
isStateMachine_anyMember(n) ==
    \/ n.callee.type = "Identifier" /\ n.callee.name = "StateMachine"
    \/ /\ n.callee.type = "MemberExpression"
       /\ n.callee.property.type = "Identifier"

isStateMachine(n) ==
    \/ n.callee.type = "Identifier" /\ n.callee.name = "StateMachine"
    \/ /\ n.callee.type = "MemberExpression"
       /\ n.callee.property.type = "Identifier"
       /\ n.callee.property.name = "StateMachine"

\* The loop over configObj.properties: the last `key: {...}` property wins.
RECURSIVE findObjectProp(_, _, _, _)
findObjectProp(props, name, i, found) ==
    IF i > Len(props) THEN found
    ELSE LET prop == props[i] IN
         findObjectProp(props, name, i + 1,
            IF /\ prop.type = "Property"
               /\ prop.key.type = "Identifier"
               /\ prop.key.name = name
               /\ prop.value.type = "ObjectExpression"
            THEN prop.value
            ELSE found)

configPropOf(n) == findObjectProp(n.arguments[1].properties, "config", 1, NULL)

commandsPropOf(n) == findObjectProp(n.arguments[1].properties, "commands", 1, NULL)

\* TRUE when the handler gets past its early returns.
Applicable(n) ==
    /\ isStateMachine(n)
    /\ ~(Len(n.arguments) = 0 \/ n.arguments[1].type # "ObjectExpression")
    /\ configPropOf(n) # NULL
    /\ commandsPropOf(n) # NULL

(***************************************************************************)
(* The syntax trees the rule is run on                                     *)
(***************************************************************************)
MaxTargets == 3

MaxCases == 2

MaxArgs == 2

Ids == {"active", "idle", "error"}

SeqsUpTo(S, n) == UNION {[1..k -> S] : k \in 0..n}

\* { id: 's' }
RetObj(s) == ObjectExpression(<<Property(Identifier("id"), StringLiteral(s))>>)

Resolved == {RetObj(s) : s \in Ids}

\* Return values the walk cannot resolve to a string-literal id: a variable,
\* a call result, a ternary, an object whose id is not a literal.
Unresolved ==
    {Identifier("next"),
     CallExpression(Identifier("pick"), <<RetObj("idle")>>),
     ConditionalExpression(Identifier("cond"), RetObj("active"), RetObj("idle")),
     ObjectExpression(<<Property(Identifier("id"), Identifier("next"))>>)}

Returns == {ReturnStatement(e) : e \in Resolved \cup Unresolved \cup {NULL}}

ResolvedReturns == {ReturnStatement(e) : e \in Resolved}

Switches ==
    {SwitchStatement(Identifier("kind"), cases) :
        cases \in SeqsUpTo({SwitchCase(Identifier("k"), <<r>>) : r \in ResolvedReturns},
                           MaxCases) \ {<<>>}}

\* Statements that can stand before a final return.
ControlGuards ==
    {IfStatement(Identifier("cond"), r, NULL) :
        r \in ResolvedReturns \cup {BlockStatement(<<q>>) : q \in ResolvedReturns}
              \cup {ReturnStatement(Identifier("next"))}}
    \cup {IfStatement(Identifier("cond"), r, q) :
            r \in ResolvedReturns, q \in ResolvedReturns}
    \cup Switches
    \cup {TryStatement(BlockStatement(<<r>>), CatchClause(BlockStatement(<<q>>)), NULL) :
            r \in ResolvedReturns, q \in ResolvedReturns}
    \cup {WhileStatement(Identifier("cond"), BlockStatement(<<r>>)) : r \in ResolvedReturns}

\* Statements that bind or pass a value, or declare a helper function.
BindingGuards ==
    {VariableDeclaration("next", e) : e \in Resolved}
    \cup {ExpressionStatement(CallExpression(Identifier("log"), <<RetObj("idle")>>)),
          ExpressionStatement(CallExpression(
              MemberExpression(RetObj("error"), Identifier("freeze")), <<>>))}
    \cup {FunctionDeclaration("helper", BlockStatement(<<r>>)) : r \in ResolvedReturns}

\* Execute thunks: () => expr and () => { return ... }
PlainThunks ==
    {ArrowFunctionExpression(e) : e \in Resolved \cup Unresolved}
    \cup {ArrowFunctionExpression(BlockStatement(<<r>>)) : r \in Returns}

\* Execute thunks: () => { guard } and () => { guard; return ... }
GuardedThunks(guards) ==
    {ArrowFunctionExpression(BlockStatement(<<g>>)) : g \in guards}
    \cup {ArrowFunctionExpression(BlockStatement(<<g, r>>)) : g \in guards, r \in Returns}

SmallThunks ==
    {ArrowFunctionExpression(RetObj("active")),
     ArrowFunctionExpression(Identifier("next")),
     ArrowFunctionExpression(BlockStatement(
        <<IfStatement(Identifier("cond"), ReturnStatement(RetObj("idle")), NULL),
          ReturnStatement(RetObj("active"))>>)),
     FunctionExpression(BlockStatement(<<ReturnStatement(RetObj("error"))>>)),
     FunctionExpression(BlockStatement(<<>>))}

\* ({ message }) => ({ execute: thunk })
Factory(thunk) ==
    ArrowFunctionExpression(ObjectExpression(<<Property(Identifier("execute"), thunk)>>))

Undo == Property(Identifier("undo"), ArrowFunctionExpression(RetObj("idle")))

FactoryShapes(thunk) ==
    LET exec == Property(Identifier("execute"), thunk)
        obj  == ObjectExpression(<<exec>>)
    IN  {Factory(thunk),
         ArrowFunctionExpression(ObjectExpression(<<Undo, exec>>)),
         ArrowFunctionExpression(BlockStatement(<<ReturnStatement(obj)>>)),
         ArrowFunctionExpression(BlockStatement(
            <<VariableDeclaration("t", Identifier("now")), ReturnStatement(obj)>>)),
         ArrowFunctionExpression(BlockStatement(
            <<ReturnStatement(ObjectExpression(<<Undo>>)), ReturnStatement(obj)>>)),
         ArrowFunctionExpression(BlockStatement(
            <<IfStatement(Identifier("cond"), ReturnStatement(obj), NULL)>>)),
         ArrowFunctionExpression(BlockStatement(<<ReturnStatement(Identifier("cmd"))>>)),
         ArrowFunctionExpression(BlockStatement(<<ReturnStatement(NULL)>>)),
         ArrowFunctionExpression(Identifier("cmd")),
         ArrowFunctionExpression(ObjectExpression(<<Undo>>)),
         ArrowFunctionExpression(ObjectExpression(
            <<Property(Identifier("execute"), Identifier("run"))>>)),
         ArrowFunctionExpression(ObjectExpression(
            <<Property(StringLiteral("execute"), thunk)>>)),
         ArrowFunctionExpression(ObjectExpression(
            <<SpreadElement(Identifier("base")), exec>>)),
         FunctionExpression(BlockStatement(<<ReturnStatement(obj)>>)),
         FunctionExpression(BlockStatement(<<ReturnStatement(Identifier("cmd"))>>)),
         Identifier("makeCommand"),
         CallExpression(Identifier("makeCommand"), <<obj>>)}

\* Elements of a declared-target array: string literals and non-literals.
TargetElements == {StringLiteral(s) : s \in Ids} \cup {Identifier("next")}

TargetLists == SeqsUpTo(TargetElements, MaxTargets)

LiteralTargetLists == SeqsUpTo({StringLiteral(s) : s \in Ids}, MaxTargets)

SmallTargetLists ==
    {<<StringLiteral("active"), StringLiteral("idle")>>,
     <<StringLiteral("active"), StringLiteral("idle"), StringLiteral("error")>>,
     <<StringLiteral("active"), Identifier("next")>>,
     <<NumberLiteral, StringLiteral("idle"), NULL, StringLiteral("idle")>>,
     <<SpreadElement(Identifier("others")), NumberLiteral>>}

\* { on: { go: [...] } }
StateConfig(msgProps) ==
    ObjectExpression(<<Property(Identifier("disableUndoRedo"), Identifier("no")),
                       Property(Identifier("on"), ObjectExpression(msgProps))>>)

\* config: { idle: { on: { go: [...] } } }
Config(elems) ==
    ObjectExpression(
        <<Property(Identifier("idle"),
                   StateConfig(<<Property(Identifier("go"), ArrayExpression(elems))>>))>>)

ConfigShapes(elems) ==
    LET go   == Property(Identifier("go"), ArrayExpression(elems))
        stop == Property(Identifier("stop"),
                         ArrayExpression(<<StringLiteral("idle"), StringLiteral("error")>>))
        st   == StateConfig(<<go>>)
    IN  {ObjectExpression(<<Property(StringLiteral("idle"), st)>>),
         ObjectExpression(<<Property(Identifier("idle"), Identifier("idleConfig"))>>),
         ObjectExpression(<<Property(Identifier("idle"), ObjectExpression(<<>>))>>),
         ObjectExpression(<<Property(Identifier("idle"),
            ObjectExpression(<<Property(Identifier("on"), Identifier("handlers"))>>))>>),
         ObjectExpression(<<Property(Identifier("idle"),
            StateConfig(<<Property(StringLiteral("go"), ArrayExpression(elems))>>))>>),
         ObjectExpression(<<Property(Identifier("idle"),
            StateConfig(<<Property(Identifier("go"), Identifier("targets"))>>))>>),
         ObjectExpression(<<Property(Identifier("idle"),
            StateConfig(<<SpreadElement(Identifier("common")), go, stop,
                          Property(Identifier("reset"),
                                   ArrayExpression(<<Identifier("next")>>))>>))>>),
         ObjectExpression(<<SpreadElement(Identifier("base")),
                            Property(Identifier("active"), StateConfig(<<stop>>)),
                            Property(Identifier("idle"), st)>>),
         ObjectExpression(<<Property(Identifier("active"), StateConfig(<<go>>)),
                            Property(Identifier("idle"), StateConfig(<<stop>>))>>)}

\* commands: { idle: { go: factory, stop: ... } }; `stop` always yields 'idle'.
StopFactory == Factory(ArrowFunctionExpression(RetObj("idle")))

Commands(factory) ==
    ObjectExpression(
        <<Property(Identifier("idle"),
                   ObjectExpression(<<Property(Identifier("go"), factory),
                                      Property(Identifier("stop"), StopFactory)>>))>>)

CommandsShapes(factory) ==
    LET go   == Property(Identifier("go"), factory)
        stop == Property(Identifier("stop"), StopFactory)
    IN  {ObjectExpression(<<Property(StringLiteral("idle"), ObjectExpression(<<go>>))>>),
         ObjectExpression(<<Property(Identifier("idle"), Identifier("idleCommands"))>>),
         ObjectExpression(<<Property(Identifier("error"), ObjectExpression(<<go>>))>>),
         ObjectExpression(<<SpreadElement(Identifier("base")),
                            Property(Identifier("idle"),
                                ObjectExpression(<<SpreadElement(Identifier("common")),
                                                   Property(StringLiteral("go"), factory),
                                                   stop>>))>>),
         ObjectExpression(<<Property(Identifier("active"), ObjectExpression(<<go, stop>>)),
                            Property(Identifier("idle"), ObjectExpression(<<stop, go>>))>>)}

\* The argument of the constructor: { model, config, commands, ... }
Props(config, commands) ==
    ObjectExpression(<<Property(Identifier("model"), Identifier("model")),
                       Property(Identifier("config"), config),
                       Property(Identifier("commands"), commands)>>)

PropsShapes(config, commands) ==
    {Props(config, commands),
     ObjectExpression(<<Property(Identifier("commands"), commands)>>),
     ObjectExpression(<<Property(Identifier("config"), config)>>),
     ObjectExpression(<<Property(Identifier("config"), Identifier("config")),
                        Property(Identifier("commands"), commands)>>),
     ObjectExpression(<<Property(Identifier("config"), config),
                        Property(Identifier("commands"), Identifier("commands"))>>),
     ObjectExpression(<<Property(StringLiteral("config"), config),
                        Property(Identifier("commands"), commands)>>),
     ObjectExpression(<<SpreadElement(Identifier("defaults")),
                        Property(Identifier("commands"), commands),
                        Property(Identifier("config"), config)>>)}

Callees ==
    {Identifier("StateMachine"),
     Identifier("Machine"),
     MemberExpression(Identifier("fsm"), Identifier("StateMachine")),
     MemberExpression(Identifier("fsm"), Identifier("Machine")),
     MemberExpression(Identifier("fsm"), StringLiteral("StateMachine"))}

\* new StateMachine({ config, commands })
Site(config, commands) ==
    NewExpressionNode(Identifier("StateMachine"), <<Props(config, commands)>>)

\* The sites the rule is run on: every declared list against the plain
\* thunks, every list of string literals against the branching thunks, then
\* the factory, config, commands and constructor shapes against a few.
IsSite(n) ==
    \/ \E elems \in TargetLists, thunk \in PlainThunks :
          n = Site(Config(elems), Commands(Factory(thunk)))
    \/ \E elems \in LiteralTargetLists, thunk \in GuardedThunks(ControlGuards) :
          n = Site(Config(elems), Commands(Factory(thunk)))
    \/ \E elems \in LiteralTargetLists, thunk \in GuardedThunks(BindingGuards) :
          n = Site(Config(elems), Commands(Factory(thunk)))
    \/ \E elems \in SmallTargetLists, thunk \in SmallThunks :
          \E f \in FactoryShapes(thunk) :
             n = Site(Config(elems), Commands(f))
    \/ \E elems \in SmallTargetLists, thunk \in SmallThunks :
          \E c \in ConfigShapes(elems) :
             n = Site(c, Commands(Factory(thunk)))
    \/ \E elems \in SmallTargetLists, thunk \in SmallThunks :
          \E c \in CommandsShapes(Factory(thunk)) :
             n = Site(Config(elems), c)
    \/ \E callee \in Callees :
          \E args \in SeqsUpTo(
                PropsShapes(Config(<<StringLiteral("active"), StringLiteral("idle")>>),
                            Commands(Factory(ArrowFunctionExpression(RetObj("active")))))
                \cup {Identifier("props")}, MaxArgs) :
             n = NewExpressionNode(callee, args)

(***************************************************************************)
(* The rule as a state machine                                             *)
(***************************************************************************)
Init ==
    /\ IsSite(node)
    /\ pc = "pending"
    /\ transitions = EmptyMap
    /\ scans = <<>>
    /\ reports = <<>>
    /\ thisProps = NULL
    /\ model = NULL
    /\ history = <<>>
    /\ future = <<>>
    /\ log = <<>>

NewExpression ==
    /\ pc = "pending"
    /\ pc' = "done"
    /\ IF Applicable(node)
       THEN LET trans  == parseStateMachineConfig(configPropOf(node))
                result == checkCommands(commandsPropOf(node), trans)
            IN  /\ transitions' = trans
                /\ scans' = result.scans
                /\ reports' = reports \o result.reports
       ELSE UNCHANGED <<transitions, scans, reports>>
    /\ UNCHANGED node
    /\ UNCHANGED machineVars

Next == NewExpression

Spec == Init /\ [][Next]_vars

(***************************************************************************)
(* The StateMachine class of src/src/state-machine.ts.                     *)
(*                                                                         *)
(* A state and a message are records with an `id`.  A command is a record  *)
(* whose `execute` (and `undo`, when it has one) is the closure as data:   *)
(* the effect it has on the model when called and, for execute, the state  *)
(* it returns.  undefined is the record UNDEFINED.                         *)
(***************************************************************************)
UNDEFINED == [undefined |-> TRUE]

\* The keys `in` finds on every object literal through Object.prototype.
ObjectPrototype == {"toString", "constructor"}

\* key in obj
In(key, obj) == key \in DOMAIN obj \/ key \in ObjectPrototype

\* { ...base, ...obj }
Spread(base, obj) ==
    [k \in DOMAIN base \cup DOMAIN obj |-> IF k \in DOMAIN obj THEN obj[k] ELSE base[k]]

\* createCounterModel: increment, decrement, setValue on the closed-over value.
createCounterModel == [value |-> 0]

CallOn(m, thunk) ==
    IF thunk.effect = "increment" THEN [value |-> m.value + 1]
    ELSE IF thunk.effect = "decrement" THEN [value |-> m.value - 1]
    ELSE IF thunk.effect = "setValue" THEN [value |-> thunk.value]
    ELSE m

\* The command factories of the test machine, called with
\* payload = { model, state, message }.
commandFactory(name, payload) ==
    IF name = "activate"
    THEN [execute |->
            [effect |-> "none",
             returns |-> IF payload.message.timestamp > 1000
                         THEN [id |-> "idle", startTime |-> payload.message.timestamp]
                         ELSE [id |-> "active", startTime |-> payload.message.timestamp]]]
    ELSE IF name = "disable"
    THEN [execute |-> [effect |-> "none",
                       returns |-> [id |-> "disabled", reason |-> payload.message.reason]]]
    ELSE IF name \in {"deactivate", "enable"}
    THEN [execute |-> [effect |-> "none", returns |-> [id |-> "idle"]]]
    ELSE LET prevCount == payload.model.value IN
         [execute |-> [effect |-> name,    \* model.increment() or model.decrement()
                       returns |-> Spread([id |-> "active"], payload.state)],
          undo    |-> [effect |-> "setValue", value |-> prevCount]]

\* The props of createTestStateMachine.
createTestStateMachine ==
    [initialState |-> [id |-> "idle"],
     config |->
        [idle     |-> [on |-> [activate |-> <<"active", "idle">>,
                               disable  |-> <<"disabled">>]],
         active   |-> [on |-> [deactivate |-> <<"idle">>,
                               disable    |-> <<"disabled">>,
                               increment  |-> <<"active">>,
                               decrement  |-> <<"active">>]],
         disabled |-> [on |-> [enable |-> <<"idle">>]]],
     commands |->
        [idle     |-> [activate |-> "activate", disable |-> "disable"],
         active   |-> [deactivate |-> "deactivate", disable |-> "disable",
                       increment |-> "increment", decrement |-> "decrement"],
         disabled |-> [enable |-> "enable"]]]

\* The test machine with `disableUndoRedo: true` in the config of `disabled`.
WithDisableUndoRedo ==
    [createTestStateMachine EXCEPT
        !.config.disabled = [on |-> [enable |-> <<"idle">>], disableUndoRedo |-> TRUE]]

\* The test machine whose commands are not those its config lists: `idle`
\* has a factory for `enable`, `disabled` has no commands at all.
WithOtherCommands ==
    [createTestStateMachine EXCEPT
        !.commands = [idle   |-> [activate |-> "activate", disable |-> "disable",
                                  enable |-> "enable"],
                      active |-> [deactivate |-> "deactivate", disable |-> "disable",
                                  increment |-> "increment", decrement |-> "decrement"]]]

Machines == {createTestStateMachine, WithDisableUndoRedo, WithOtherCommands}

MaxHistory == 3

\* The messages sent to execute.
Messages ==
    {[id |-> "activate", timestamp |-> t] : t \in {1000, 2000}}
    \cup {[id |-> "disable", reason |-> "maintenance"]}
    \cup {[id |-> m] : m \in {"deactivate", "enable", "increment", "decrement",
                              "undo", "redo", "toString"}}

\* history.at(-1)?.state ?? initialState
getCurrentState(h) == IF h = <<>> THEN thisProps.initialState ELSE h[Len(h)].state

\* getCommand looking the message up in the commands of every state.
getCommand_anyState(message) ==
    LET state == getCurrentState(history)
        owners == {s \in DOMAIN thisProps.commands :
                      message.id \in DOMAIN thisProps.commands[s]}
    IN  IF owners = {} THEN UNDEFINED
        ELSE LET stateCommands ==
                     thisProps.commands[IF state.id \in owners THEN state.id
                                        ELSE CHOOSE s \in owners : TRUE]
             IN  commandFactory(stateCommands[message.id],
                                [model |-> model, state |-> state, message |-> message])

\* The command for a message; for a key found on Object.prototype only, the
\* value the inherited function returns, which has no `execute`.
getCommand(message) ==
    LET state == getCurrentState(history) IN
    IF ~In(state.id, thisProps.commands) THEN UNDEFINED
    ELSE LET stateCommands == thisProps.commands[state.id] IN
         IF ~In(message.id, stateCommands) THEN UNDEFINED
         ELSE IF message.id \notin DOMAIN stateCommands
         THEN [native |-> message.id]
         ELSE commandFactory(stateCommands[message.id],
                             [model |-> model, state |-> state, message |-> message])

\* canUndoRedo ignoring the flag.
canUndoRedo_always == TRUE

\* !this.thisProps.config[this.state.id].disableUndoRedo
canUndoRedo ==
    LET stateConfig == thisProps.config[getCurrentState(history).id] IN
    ~("disableUndoRedo" \in DOMAIN stateConfig /\ stateConfig.disableUndoRedo)

\* The machine a call of execute leaves behind, with the command functions
\* it called.
Outcome(h, f, m, calls, thrown) ==
    [history |-> h, future |-> f, model |-> m, calls |-> calls, thrown |-> thrown]

Unchanged == Outcome(history, future, model, <<>>, FALSE)

\* undo keeping the entry on the history.
undo_noPop ==
    IF history = <<>> THEN Unchanged
    ELSE LET entry == history[Len(history)] IN
         IF "undo" \in DOMAIN entry.command
         THEN Outcome(history, Append(future, entry),
                      CallOn(model, entry.command.undo),
                      <<[fn |-> "undo", command |-> entry.command]>>, FALSE)
         ELSE Outcome(history, Append(future, entry), model, <<>>, FALSE)

\* undo without `if (!entry) return`, reading the entry with `?.`.
undo_noEntryTest ==
    IF history = <<>> THEN Outcome(history, Append(future, UNDEFINED), model, <<>>, FALSE)
    ELSE LET entry == history[Len(history)]
             rest  == SubSeq(history, 1, Len(history) - 1)
         IN  IF "undo" \in DOMAIN entry.command
             THEN Outcome(rest, Append(future, entry),
                          CallOn(model, entry.command.undo),
                          <<[fn |-> "undo", command |-> entry.command]>>, FALSE)
             ELSE Outcome(rest, Append(future, entry), model, <<>>, FALSE)

undo ==
    IF history = <<>> THEN Unchanged
    ELSE LET entry == history[Len(history)]
             rest  == SubSeq(history, 1, Len(history) - 1)
         IN  IF "undo" \in DOMAIN entry.command
             THEN Outcome(rest, Append(future, entry),
                          CallOn(model, entry.command.undo),
                          <<[fn |-> "undo", command |-> entry.command]>>, FALSE)
             ELSE Outcome(rest, Append(future, entry), model, <<>>, FALSE)

\* redo taking the oldest entry of the future (shift for pop).
redo_oldestFirst ==
    IF future = <<>> THEN Unchanged
    ELSE LET entry == future[1] IN
         Outcome(Append(history, entry), Tail(future),
                 CallOn(model, entry.command.execute),
                 <<[fn |-> "execute", command |-> entry.command]>>, FALSE)

redo ==
    IF future = <<>> THEN Unchanged
    ELSE LET entry == future[Len(future)] IN
         Outcome(Append(history, entry), SubSeq(future, 1, Len(future) - 1),
                 CallOn(model, entry.command.execute),
                 <<[fn |-> "execute", command |-> entry.command]>>, FALSE)

\* The else branch of execute keeping this.future.
run_keepFuture(message, command) ==
    Outcome(Append(history, [state   |-> command.execute.returns,
                             message |-> message,
                             command |-> command]),
            future,
            CallOn(model, command.execute),
            <<[fn |-> "execute", command |-> command]>>, FALSE)

\* command.execute(); this.future = []; this.history.push(...)
run(message, command) ==
    Outcome(Append(history, [state   |-> command.execute.returns,
                             message |-> message,
                             command |-> command]),
            <<>>,
            CallOn(model, command.execute),
            <<[fn |-> "execute", command |-> command]>>, FALSE)

\* What execute(message) does to the machine.  Calling the `execute` a
\* value does not have throws a TypeError before anything is assigned.
Executed(message) ==
    IF message.id = "undo" \/ message.id = "redo"
    THEN IF ~canUndoRedo THEN Unchanged
         ELSE IF message.id = "undo" THEN undo
         ELSE redo
    ELSE LET command == getCommand(message) IN
         IF command = UNDEFINED THEN Unchanged
         ELSE IF "execute" \notin DOMAIN command
         THEN Outcome(history, future, model, <<>>, TRUE)
         ELSE run(message, command)

MachineInit ==
    /\ thisProps \in Machines
    /\ model = createCounterModel
    /\ history = <<>>
    /\ future = <<>>
    /\ log = <<>>
    /\ node = NULL
    /\ pc = "done"
    /\ transitions = EmptyMap
    /\ scans = <<>>
    /\ reports = <<>>

execute(message) ==
    LET out == Executed(message) IN
    /\ Len(out.history) <= MaxHistory
    /\ history' = out.history
    /\ future' = out.future
    /\ model' = out.model
    /\ log' = <<[message |-> message,
                 history |-> history,
                 future  |-> future,
                 model   |-> model,
                 calls   |-> out.calls,
                 thrown  |-> out.thrown]>>
              \o (IF log = <<>> THEN <<>> ELSE <<log[1]>>)
    /\ UNCHANGED thisProps
    /\ UNCHANGED ruleVars

MachineNext == \E message \in Messages : execute(message)

MachineSpec == MachineInit /\ [][MachineNext]_vars

(***************************************************************************)
(* Reading a site's syntax, for the properties below.  The keys of an      *)
(* object literal are distinct.                                            *)
(***************************************************************************)
Done == pc = "done" /\ Applicable(node)

ToSet(seq) == {seq[k] : k \in DOMAIN seq}

IsIdProp(p) == p.type = "Property" /\ p.key.type = "Identifier"

IsStringLiteral(e) == e # NULL /\ e.type = "Literal" /\ e.typeof = "string"

\* The string literals of a declared-target array, in source order.
Retained(value) ==
    IF value.type # "ArrayExpression" THEN <<>>
    ELSE LET kept == SelectSeq(value.elements, IsStringLiteral)
         IN  [k \in 1..Len(kept) |-> kept[k].value]

\* The value of the property `name: ...` of an object literal, or NULL.
PropValue(obj, name) ==
    LET at == {k \in DOMAIN obj.properties :
                  IsIdProp(obj.properties[k]) /\ obj.properties[k].key.name = name}
    IN  IF at = {} THEN NULL ELSE obj.properties[CHOOSE k \in at : TRUE].value

\* The `on` literal of the state `name` of the config literal, or NULL.
OnLiteral(config, name) ==
    LET state == PropValue(config, name) IN
    IF state = NULL \/ state.type # "ObjectExpression" THEN NULL
    ELSE LET on == PropValue(state, "on") IN
         IF on = NULL \/ on.type # "ObjectExpression" THEN NULL ELSE on

\* The declared targets the config literal gives a state and a message.
Declared(config, stateName, messageName) ==
    LET on == OnLiteral(config, stateName) IN
    IF on = NULL THEN <<>>
    ELSE LET value == PropValue(on, messageName) IN
         IF value = NULL THEN <<>> ELSE Retained(value)

IdKeys(obj) == {p.key.name : p \in {q \in ToSet(obj.properties) : IsIdProp(q)}}

\* The (state, message) pairs of the commands literal, by property position.
Pairs ==
    LET states == commandsPropOf(node).properties IN
    UNION {{<<i, j>> : j \in {k \in DOMAIN states[i].value.properties :
                                IsIdProp(states[i].value.properties[k])}} :
           i \in {k \in DOMAIN states :
                    IsIdProp(states[k]) /\ states[k].value.type = "ObjectExpression"}}

StateNameAt(p) == commandsPropOf(node).properties[p[1]].key.name

MessagePropAt(p) == commandsPropOf(node).properties[p[1]].value.properties[p[2]]

DeclaredAt(p) == Declared(configPropOf(node), StateNameAt(p), MessagePropAt(p).key.name)

\* A pair with at least 2 declared targets.
Qualifying(p) == Len(DeclaredAt(p)) >= 2

FactoryAt(p) == MessagePropAt(p).value

\* The pairs analyzeCommandFactory was called for, and what a call found.
Analyzed == {scans[k].at : k \in DOMAIN scans}

ScanAt(p) == scans[CHOOSE k \in DOMAIN scans : scans[k].at = p]

\* The execute thunk located for a pair, NULL when none was.
ThunkAt(p) == IF p \in Analyzed THEN ScanAt(p).executeFunc ELSE NULL

\* The Returned-State Set of a pair, empty when none was built.
ObservedAt(p) == IF p \in Analyzed THEN ToSet(ScanAt(p).returnedStateIds) ELSE {}

ReportsFor(p) == SelectSeq(reports, LAMBDA r : r.at = p)

\* The return statements in the control flow of a statement: nested
\* functions are other functions' returns.
RECURSIVE ReturnsOf(_)
RECURSIVE ReturnsOfAll(_)
ReturnsOfAll(stmts) ==
    IF stmts = <<>> THEN {} ELSE ReturnsOf(Head(stmts)) \cup ReturnsOfAll(Tail(stmts))

ReturnsOf(stmt) ==
    IF stmt = NULL THEN {}
    ELSE IF stmt.type = "ReturnStatement" THEN {stmt}
    ELSE IF stmt.type = "BlockStatement" THEN ReturnsOfAll(stmt.body.array)
    ELSE IF stmt.type = "IfStatement"
    THEN ReturnsOf(stmt.consequent) \cup ReturnsOf(stmt.alternate)
    ELSE IF stmt.type = "SwitchStatement"
    THEN UNION {ReturnsOfAll(c.consequent.array) : c \in ToSet(stmt.cases)}
    ELSE IF stmt.type = "TryStatement"
    THEN ReturnsOf(stmt.block)
         \cup (IF stmt.handler = NULL THEN {} ELSE ReturnsOf(stmt.handler.body))
         \cup ReturnsOf(stmt.finalizer)
    ELSE IF stmt.type = "WhileStatement" THEN ReturnsOf(stmt.body)
    ELSE {}

\* The values an execute thunk returns (NULL for a bare `return;`).
ReturnValues(thunk) ==
    IF thunk.body.type = "BlockStatement"
    THEN {r.argument : r \in ReturnsOf(thunk.body)}
    ELSE {thunk.body}

\* The ids of the object literals { id: 's' } among a set of values.
LiteralIds(values) == {s \in Ids : RetObj(s) \in values}

(***************************************************************************)
(* C1: for every (state, message) pair with at least 2 declared targets    *)
(* whose execute thunk returns, at every return wherever it sits (top      *)
(* level, if/else, switch case, loop, try block), an object literal with   *)
(* the same string-literal id S, exactly one alwaysSameState diagnostic    *)
(* is reported for the pair, and it names S.                               *)
(***************************************************************************)
C1_AlwaysSameStateEverywhere ==
    Done =>
        \A p \in Pairs : \A s \in Ids :
            (/\ Qualifying(p)
             /\ ThunkAt(p) # NULL
             /\ ReturnValues(ThunkAt(p)) = {RetObj(s)})
            => /\ Len(ReportsFor(p)) = 1
               /\ ReportsFor(p)[1].messageId = "alwaysSameState"
               /\ ReportsFor(p)[1].data.actualState = s

(***************************************************************************)
(* C2: for a pair with at least 2 declared targets whose execute thunk has *)
(* at least one return whose value is not resolved to a string-literal id  *)
(* (a variable, a call result, a ternary, an object with a non-literal     *)
(* id), no diagnostic is reported for the pair, whatever the other returns *)
(* are.                                                                    *)
(***************************************************************************)
C2_NoFindingFromUnresolvedReturn ==
    Done =>
        \A p \in Pairs :
            (/\ Qualifying(p)
             /\ ThunkAt(p) # NULL
             /\ ReturnValues(ThunkAt(p)) \cap Unresolved # {})
            => ReportsFor(p) = <<>>

(***************************************************************************)
(* C3: a return of an object literal with a string-literal id placed in    *)
(* any case of a switch statement of the execute thunk adds that id to the *)
(* Returned-State Set, as a return in an if branch or a nested block does. *)
(***************************************************************************)
SwitchCaseIds(thunk) ==
    IF thunk.body.type # "BlockStatement" THEN {}
    ELSE LiteralIds({r.argument :
            r \in UNION {ReturnsOf(st) :
                    st \in {x \in ToSet(thunk.body.body.array) :
                                x.type = "SwitchStatement"}}})

C3_SwitchCaseReturnsCollected ==
    Done =>
        \A p \in Pairs :
            (Qualifying(p) /\ ThunkAt(p) # NULL)
            => SwitchCaseIds(ThunkAt(p)) \subseteq ObservedAt(p)

(***************************************************************************)
(* C4: for every pair with at least 2 declared targets whose               *)
(* Returned-State Set has k distinct ids, 1 < k < declared count, exactly  *)
(* one missingUnionReturn diagnostic is reported for the pair, and its     *)
(* actualState lists all k ids and no others.                              *)
(***************************************************************************)
\* The orderings of a set of ids.
Orderings(S) ==
    {o \in [1..Cardinality(S) -> S] : \A a, b \in DOMAIN o : a # b => o[a] # o[b]}

C4_PartialUnion ==
    Done =>
        \A p \in Pairs :
            (/\ Qualifying(p)
             /\ ThunkAt(p) # NULL
             /\ Cardinality(ObservedAt(p)) > 1
             /\ Cardinality(ObservedAt(p)) < Len(DeclaredAt(p)))
            => /\ Len(ReportsFor(p)) = 1
               /\ ReportsFor(p)[1].messageId = "missingUnionReturn"
               /\ \E o \in Orderings(ObservedAt(p)) :
                     ReportsFor(p)[1].data.actualState = Join(o, ", ")

C4_Witness ==
    /\ Done
    /\ \E p \in Pairs :
          /\ DeclaredAt(p) = <<"active", "idle", "error">>
          /\ ThunkAt(p) # NULL
          /\ ObservedAt(p) = {"active", "idle"}
          /\ Len(ReportsFor(p)) = 1

(***************************************************************************)
(* C5: for every pair with at least 2 declared targets whose               *)
(* Returned-State Set has at least as many ids as the Declared Target List *)
(* has entries, no diagnostic is reported, even when observed ids are not  *)
(* among the declared targets.                                             *)
(***************************************************************************)
C5_EnoughObservedNoDiagnostic ==
    Done =>
        \A p \in Pairs :
            (/\ Qualifying(p)
             /\ ThunkAt(p) # NULL
             /\ Cardinality(ObservedAt(p)) >= Len(DeclaredAt(p)))
            => ReportsFor(p) = <<>>

C5_Witness ==
    /\ Done
    /\ \E p \in Pairs :
          /\ Qualifying(p)
          /\ p \in Analyzed
          /\ ThunkAt(p) # NULL
          /\ Cardinality(ObservedAt(p)) >= Len(DeclaredAt(p))
          /\ ObservedAt(p) \cap ToSet(DeclaredAt(p)) = {}

(***************************************************************************)
(* C6: when the execute thunk branches with if/else, or with an if and a   *)
(* fall-through return, every string-literal id its branches return is in  *)
(* the Returned-State Set; with declared ['active', 'idle'] and branches    *)
(* returning 'idle' and 'active', no diagnostic is reported.               *)
(***************************************************************************)
IfStatements(thunk) ==
    IF thunk.body.type # "BlockStatement" THEN {}
    ELSE {st \in ToSet(thunk.body.body.array) : st.type = "IfStatement"}

\* The ids returned by the branches of the thunk's if statements and by
\* its top-level returns.
IfBranchIds(thunk) ==
    LiteralIds({r.argument :
        r \in UNION {ReturnsOf(st) :
                st \in {x \in ToSet(thunk.body.body.array) :
                            x.type \in {"IfStatement", "ReturnStatement"}}}})

C6_IfBranchesCollected ==
    Done =>
        \A p \in Pairs :
            (/\ Qualifying(p)
             /\ ThunkAt(p) # NULL
             /\ IfStatements(ThunkAt(p)) # {})
            => /\ IfBranchIds(ThunkAt(p)) \subseteq ObservedAt(p)
               /\ (/\ DeclaredAt(p) = <<"active", "idle">>
                   /\ IfBranchIds(ThunkAt(p)) = {"active", "idle"})
                  => ReportsFor(p) = <<>>

C6_Witness ==
    /\ Done
    /\ \E p \in Pairs :
          /\ DeclaredAt(p) = <<"active", "idle">>
          /\ p \in Analyzed
          /\ ThunkAt(p) =
                ArrowFunctionExpression(BlockStatement(
                    <<IfStatement(Identifier("cond"),
                                  BlockStatement(<<ReturnStatement(RetObj("idle"))>>),
                                  NULL),
                      ReturnStatement(RetObj("active"))>>))
          /\ ReportsFor(p) = <<>>

(***************************************************************************)
(* C7: for every message whose Declared Target List keeps fewer than 2     *)
(* string literals (lists cut to 1 entry by dropping non-literals and      *)
(* messages absent from the table included), the command factory is not    *)
(* analyzed and no diagnostic is reported for the message.                 *)
(***************************************************************************)
C7_FewerThanTwoNeverAnalyzed ==
    Done =>
        \A p \in Pairs :
            Len(DeclaredAt(p)) < 2 => p \notin Analyzed /\ ReportsFor(p) = <<>>

\* The declared array as written, <<>> when there is none.
WrittenAt(p) ==
    LET on == OnLiteral(configPropOf(node), StateNameAt(p)) IN
    IF on = NULL THEN <<>>
    ELSE LET value == PropValue(on, MessagePropAt(p).key.name) IN
         IF value = NULL \/ value.type # "ArrayExpression" THEN <<>> ELSE value.elements

C7_Witness ==
    /\ Done
    /\ \E p \in Pairs :
          /\ Len(WrittenAt(p)) = 2
          /\ Len(DeclaredAt(p)) = 1
          /\ FactoryAt(p) = Factory(ArrowFunctionExpression(RetObj("active")))
          /\ p \notin Analyzed
    /\ \E p \in Pairs : WrittenAt(p) = <<>> /\ FactoryAt(p) = StopFactory

(***************************************************************************)
(* C8: when no execute thunk can be located for a pair with at least 2     *)
(* declared targets (the factory is no arrow or function expression,       *)
(* returns no object literal, or the returned object has no function-      *)
(* valued `execute`), or the Returned-State Set is empty, no diagnostic is *)
(* reported for the pair.                                                  *)
(***************************************************************************)
FunctionTypes == {"ArrowFunctionExpression", "FunctionExpression"}

\* The object literal a factory returns: its expression body, or the
\* argument of its first top-level `return {...}`; NULL when there is none.
ReturnedObject(f) ==
    IF f.body.type = "ObjectExpression" THEN f.body
    ELSE IF f.body.type # "BlockStatement" THEN NULL
    ELSE LET stmts == f.body.body.array
             at == {k \in DOMAIN stmts :
                      /\ stmts[k].type = "ReturnStatement"
                      /\ stmts[k].argument # NULL
                      /\ stmts[k].argument.type = "ObjectExpression"}
         IN  IF at = {} THEN NULL
             ELSE stmts[CHOOSE k \in at : \A m \in at : k <= m].argument

NoThunk(f) ==
    \/ f.type \notin FunctionTypes
    \/ ReturnedObject(f) = NULL
    \/ ~\E q \in ToSet(ReturnedObject(f).properties) :
            IsIdProp(q) /\ q.key.name = "execute" /\ q.value.type \in FunctionTypes

C8_NoThunkNoDiagnostic ==
    Done =>
        \A p \in Pairs :
            (/\ Qualifying(p)
             /\ \/ NoThunk(FactoryAt(p))
                \/ ObservedAt(p) = {})
            => ReportsFor(p) = <<>>

C8_Witness ==
    /\ Done
    /\ \E p \in Pairs :
          /\ Qualifying(p)
          /\ p \in Analyzed
          /\ FactoryAt(p).type \in FunctionTypes
          /\ NoThunk(FactoryAt(p))
    /\ reports = <<>>

(***************************************************************************)
(* C9: a construction site yields diagnostics only when the constructor    *)
(* is named StateMachine (directly or as the last segment of a qualified   *)
(* path) and its sole argument is an object literal: a site with more than *)
(* one argument, or whose argument is no object literal, yields none.      *)
(***************************************************************************)
NamedStateMachine(callee) ==
    \/ callee = Identifier("StateMachine")
    \/ /\ callee.type = "MemberExpression"
       /\ callee.property = Identifier("StateMachine")

C9_SoleObjectArgument ==
    (pc = "done" /\ reports # <<>>)
    => /\ NamedStateMachine(node.callee)
       /\ Len(node.arguments) = 1
       /\ node.arguments[1].type = "ObjectExpression"

\* C9 as amended: diagnostics only when the constructor is named
\* StateMachine and its first argument is an object literal; a site with no
\* argument, or whose first argument is no object literal, yields none, and
\* further arguments are not looked at.
C9_FirstObjectArgument ==
    (pc = "done" /\ reports # <<>>)
    => /\ NamedStateMachine(node.callee)
       /\ Len(node.arguments) >= 1
       /\ node.arguments[1].type = "ObjectExpression"

C9_Witness ==
    /\ pc = "done"
    /\ reports # <<>>
    /\ Len(node.arguments) = 2
    /\ node.callee = MemberExpression(Identifier("fsm"), Identifier("StateMachine"))

(***************************************************************************)
(* C10: for every state and message of the config literal, the Declared    *)
(* Target List in the Transition Table is the subsequence of the message's *)
(* array elements that are string literals, in source order, duplicates    *)
(* kept; a message with no such element has no entry.                      *)
(***************************************************************************)
C10_TransitionTable ==
    Done =>
        LET config == configPropOf(node) IN
        /\ DOMAIN transitions = {s \in IdKeys(config) : OnLiteral(config, s) # NULL}
        /\ \A s \in DOMAIN transitions :
              /\ DOMAIN transitions[s] =
                    {m \in IdKeys(OnLiteral(config, s)) : Declared(config, s, m) # <<>>}
              /\ \A m \in DOMAIN transitions[s] :
                    transitions[s][m] = Declared(config, s, m)

C10_Witness ==
    /\ Done
    /\ "idle" \in DOMAIN transitions
    /\ \E p \in Pairs :
          /\ StateNameAt(p) = "idle"
          /\ WrittenAt(p) = <<NumberLiteral, StringLiteral("idle"), NULL, StringLiteral("idle")>>
          /\ transitions["idle"][MessagePropAt(p).key.name] = <<"idle", "idle">>
    /\ \E m \in IdKeys(OnLiteral(configPropOf(node), "idle")) :
          m \notin DOMAIN transitions["idle"]

(***************************************************************************)
(* C11: every diagnostic reported is anchored at the execute thunk of its  *)
(* pair, not at the enclosing factory, and carries the message name, a     *)
(* count equal to the length of the Declared Target List with duplicates   *)
(* counted, and the declared list in its declared order.                   *)
(***************************************************************************)
\* The execute thunk as written in the object a factory returns.
ExecuteOf(f) ==
    LET props == ReturnedObject(f).properties
        at == {k \in DOMAIN props :
                 /\ IsIdProp(props[k])
                 /\ props[k].key.name = "execute"
                 /\ props[k].value.type \in FunctionTypes}
    IN  props[CHOOSE k \in at : \A m \in at : k <= m].value

C11_AnchoredAtThunk ==
    Done =>
        /\ \A k \in DOMAIN reports : reports[k].at \in Pairs
        /\ \A p \in Pairs :
              \A k \in DOMAIN ReportsFor(p) :
                 LET r == ReportsFor(p)[k] IN
                 /\ ~NoThunk(FactoryAt(p))
                 /\ r.node = ExecuteOf(FactoryAt(p))
                 /\ r.node # FactoryAt(p)
                 /\ r.data.message = MessagePropAt(p).key.name
                 /\ r.data.count = Digits[Len(DeclaredAt(p)) + 1]
                 /\ r.data.states = Join(DeclaredAt(p), ", ")

C11_Witness ==
    /\ Done
    /\ \E p \in Pairs :
          /\ DeclaredAt(p) = <<"active", "idle", "active">>
          /\ Len(ReportsFor(p)) = 1
          /\ ReportsFor(p)[1].data.count = "3"
          /\ ReportsFor(p)[1].data.states = "active, idle, active"
          /\ ReportsFor(p)[1].node = ArrowFunctionExpression(RetObj("idle"))

(***************************************************************************)
(* C19: an object literal with a string-literal id that appears in the     *)
(* execute thunk only in a variable initializer, an expression statement,  *)
(* or the callee or arguments of a call, and is returned only through the  *)
(* variable or the call, adds nothing to the Returned-State Set.           *)
(***************************************************************************)
\* The values written in the callee and the arguments of a call.
ValuesInCall(e) ==
    IF e = NULL \/ e.type # "CallExpression" THEN {}
    ELSE ToSet(e.arguments)
         \cup (IF e.callee.type = "MemberExpression" THEN {e.callee.object} ELSE {})

\* The values a statement binds or passes without returning them.
BoundValuesOf(stmt) ==
    IF stmt.type = "VariableDeclaration"
    THEN {d.init : d \in ToSet(stmt.declarations)}
    ELSE IF stmt.type = "ExpressionStatement"
    THEN {stmt.expression} \cup ValuesInCall(stmt.expression)
    ELSE IF stmt.type = "ReturnStatement"
    THEN ValuesInCall(stmt.argument)
    ELSE {}

BoundValues(thunk) ==
    IF thunk.body.type # "BlockStatement" THEN ValuesInCall(thunk.body)
    ELSE UNION {BoundValuesOf(st) : st \in ToSet(thunk.body.body.array)}

\* The values returned by the return statements written anywhere in the
\* thunk, those of helper functions declared in its body included.
WrittenReturnValues(thunk) ==
    IF thunk.body.type # "BlockStatement" THEN {thunk.body}
    ELSE {r.argument :
            r \in UNION {IF st.type = "FunctionDeclaration"
                         THEN ReturnsOf(st.body) ELSE ReturnsOf(st) :
                         st \in ToSet(thunk.body.body.array)}}

C19_BindingsNotFollowed ==
    Done =>
        \A p \in Pairs :
            (Qualifying(p) /\ ThunkAt(p) # NULL)
            => \A s \in LiteralIds(BoundValues(ThunkAt(p)))
                        \ LiteralIds(WrittenReturnValues(ThunkAt(p))) :
                  s \notin ObservedAt(p)

C19_Witness ==
    /\ Done
    /\ \E p \in Pairs :
          /\ Qualifying(p)
          /\ p \in Analyzed
          /\ ThunkAt(p) =
                ArrowFunctionExpression(BlockStatement(
                    <<VariableDeclaration("next", RetObj("idle")),
                      ReturnStatement(RetObj("active"))>>))
          /\ ObservedAt(p) = {"active"}

(***************************************************************************)
(* C20: every id in the Returned-State Set is returned by a return of the  *)
(* execute thunk itself; a return statement of a helper function declared  *)
(* as a statement in the thunk's body contributes no id.                   *)
(***************************************************************************)
C20_OnlyOwnReturns ==
    Done =>
        \A p \in Pairs :
            (Qualifying(p) /\ ThunkAt(p) # NULL)
            => ObservedAt(p) \subseteq LiteralIds(ReturnValues(ThunkAt(p)))

(***************************************************************************)
(* Reading the last calls of execute, for the properties of StateMachine   *)
(***************************************************************************)
Last == log[1]

Prev == log[2]

IsUndoRedo(message) == message.id \in {"undo", "redo"}

\* The state that was current when the call of a step was made.
StateAt(step) == getCurrentState(step.history)

\* The command functions a step called.
Ran(step, fn) == \E k \in DOMAIN step.calls : step.calls[k].fn = fn

\* The last call left history, future, current state and model as they
\* were and called no command function.
NothingDone ==
    /\ history = Last.history
    /\ future = Last.future
    /\ model = Last.model
    /\ getCurrentState(history) = StateAt(Last)
    /\ Last.calls = <<>>

\* disableUndoRedo as written in the config of a state.
DisablesUndoRedo(state) ==
    LET stateConfig == thisProps.config[state.id] IN
    "disableUndoRedo" \in DOMAIN stateConfig /\ stateConfig.disableUndoRedo = TRUE

(***************************************************************************)
(* C12: after any sequence of calls, right after a message other than      *)
(* undo and redo has been executed with a command found and run, the       *)
(* future stack is empty; a redo sent right after it leaves current state, *)
(* history and model unchanged.                                            *)
(***************************************************************************)
C12_FutureClearedByExecute ==
    /\ (/\ log # <<>>
        /\ ~IsUndoRedo(Last.message)
        /\ Ran(Last, "execute"))
       => future = <<>>
    /\ (/\ Len(log) = 2
        /\ ~IsUndoRedo(Prev.message)
        /\ Ran(Prev, "execute")
        /\ Last.message.id = "redo")
       => NothingDone

C12_Witness ==
    /\ Len(log) = 2
    /\ Prev.message.id = "increment"
    /\ Ran(Prev, "execute")
    /\ Prev.future # <<>>
    /\ Last.message.id = "redo"
    /\ Last.future = <<>>
    /\ NothingDone

(***************************************************************************)
(* C13: when undo is permitted in the current state and history is not     *)
(* empty, executing {id: 'undo'} removes exactly the last history entry,   *)
(* calls that entry's command undo() exactly once if it has one, pushes    *)
(* the entry onto the future, and makes the current state the state of the *)
(* new last history entry, or initialState when history became empty.      *)
(***************************************************************************)
C13_UndoPopsLastEntry ==
    (/\ log # <<>>
     /\ Last.message.id = "undo"
     /\ Last.history # <<>>
     /\ ~DisablesUndoRedo(StateAt(Last)))
    => LET n == Len(Last.history)
           entry == Last.history[n]
       IN  /\ history = [k \in 1..(n - 1) |-> Last.history[k]]
           /\ future = Last.future \o <<entry>>
           /\ Last.calls = IF "undo" \in DOMAIN entry.command
                           THEN <<[fn |-> "undo", command |-> entry.command]>>
                           ELSE <<>>
           /\ getCurrentState(history) = IF n = 1 THEN thisProps.initialState
                                         ELSE Last.history[n - 1].state

C13_Witness ==
    /\ log # <<>>
    /\ Last.message.id = "undo"
    /\ Len(Last.history) = 2
    /\ Last.history[2].message.id = "increment"
    /\ Last.calls # <<>>
    /\ Len(history) = 1
    /\ getCurrentState(history).id = "active"
    /\ model.value = 0

(***************************************************************************)
(* C14: executing a message other than undo and redo for which the current *)
(* state has no command factory (the state id is not in commands, or the   *)
(* message id is not among that state's commands) leaves history, future,  *)
(* current state and model unchanged and runs no command.                  *)
(***************************************************************************)
NoFactory(step) ==
    \/ StateAt(step).id \notin DOMAIN thisProps.commands
    \/ step.message.id \notin DOMAIN thisProps.commands[StateAt(step).id]

C14_NoFactoryNoEffect ==
    (/\ log # <<>>
     /\ ~IsUndoRedo(Last.message)
     /\ NoFactory(Last))
    => NothingDone

C14_Witness ==
    /\ log # <<>>
    /\ Last.message.id = "enable"
    /\ StateAt(Last).id = "active"
    /\ Last.history # <<>>
    /\ Last.future # <<>>
    /\ Last.model.value # 0
    /\ NothingDone

(***************************************************************************)
(* C15: a command is executed for a message only if the config of the      *)
(* current state lists that message under `on`: no command is run for a    *)
(* (state, message) pair that config[state].on does not define.            *)
(***************************************************************************)
C15_OnlyConfiguredMessages ==
    (/\ log # <<>>
     /\ ~IsUndoRedo(Last.message)
     /\ Ran(Last, "execute"))
    => Last.message.id \in DOMAIN thisProps.config[StateAt(Last).id].on

(***************************************************************************)
(* C16: when the config of the current state has disableUndoRedo set,      *)
(* executing {id: 'undo'} or {id: 'redo'} leaves history, future, current  *)
(* state and model unchanged and calls no command's undo() or execute();   *)
(* the state tested is the one current when the message is executed, so a  *)
(* redo is blocked when the state reached by an undo disables undo/redo.   *)
(***************************************************************************)
C16_DisabledUndoRedo ==
    (/\ log # <<>>
     /\ IsUndoRedo(Last.message)
     /\ DisablesUndoRedo(StateAt(Last)))
    => NothingDone

C16_Witness ==
    /\ Len(log) = 2
    /\ Prev.message.id = "undo"
    /\ ~DisablesUndoRedo(StateAt(Prev))
    /\ Len(Last.history) = Len(Prev.history) - 1
    /\ Last.message.id = "redo"
    /\ DisablesUndoRedo(StateAt(Last))
    /\ Last.future # <<>>
    /\ NothingDone

(***************************************************************************)
(* C17: with undo/redo permitted in the states involved and a non-empty    *)
(* history, an undo followed at once by a redo leaves history and future   *)
(* exactly the sequences they were before the undo, and so the same        *)
(* current state; every undo/redo pair of an alternation is such a pair.   *)
(***************************************************************************)
C17_UndoRedoRestores ==
    (/\ Len(log) = 2
     /\ Prev.message.id = "undo"
     /\ Prev.history # <<>>
     /\ ~DisablesUndoRedo(StateAt(Prev))
     /\ Last.message.id = "redo"
     /\ ~DisablesUndoRedo(StateAt(Last)))
    => /\ history = Prev.history
       /\ future = Prev.future
       /\ getCurrentState(history) = StateAt(Prev)

C17_Witness ==
    /\ Len(log) = 2
    /\ Prev.message.id = "undo"
    /\ Len(Prev.history) = 2
    /\ Prev.future # <<>>
    /\ Last.message.id = "redo"
    /\ Len(Last.history) = 1
    /\ Ran(Last, "execute")
    /\ history = Prev.history
    /\ future = Prev.future

(***************************************************************************)
(* C18: executing {id: 'undo'} with an empty history, or {id: 'redo'} with *)
(* an empty future, leaves history, future, current state and model        *)
(* unchanged and calls no command function.                                *)
(***************************************************************************)
C18_NothingToUndoOrRedo ==
    (/\ log # <<>>
     /\ \/ Last.message.id = "undo" /\ Last.history = <<>>
        \/ Last.message.id = "redo" /\ Last.future = <<>>)
    => NothingDone

C18_Witness ==
    /\ Len(log) = 2
    /\ Prev.message.id = "undo"
    /\ Len(Prev.history) = 1
    /\ Prev.future # <<>>
    /\ Last.message.id = "undo"
    /\ Last.history = <<>>
    /\ Len(Last.future) = 2
    /\ NothingDone

====
